---- MODULE Spec2Model ----
(***************************************************************************)
(* Annotation pipeline of zathura-pdf-mupdf: reading, exporting, deleting  *)
(* and updating markup annotations and sticky notes of one page, behind    *)
(* the document mutex.  annotations.c and page.c are both modelled; the    *)
(* two files each define pdf_page_get_annotations, the page.c one is named *)
(* pdf_page_get_annotations_page here.                                      *)
(*                                                                         *)
(* Numbers.  A C double is an integer number of ticks (1.0 = Eps ticks).   *)
(* A C float is a double on the coarser grid of multiples of FloatStep:    *)
(* storing a double into a float rounds to the nearest grid point.         *)
(* Colour channels are the floats nearest to k/10, written k (0..10).      *)
(***************************************************************************)
EXTENDS Integers, Sequences, FiniteSets, TLC

\* ------------------------------------------------------------ bounds
\* the page's annotation list never grows beyond this (guard of the exports)
MaxAnnots == 3
\* with a single thread: the calls of a run that may change the page
MaxEdits == 1
\* resolution of a float, in ticks of a double
FloatStep == 4

\* ------------------------------------------------------------ constants
\* const double eps = 1.0, in ticks
Eps == 10
\* side of the sticky-note icon rectangle, 24.0, in ticks
NoteIcon == 240

Threads == {"t1", "t2"}
Free == "free"
NullStr == "NULL"

Markup == {"HIGHLIGHT", "UNDERLINE", "STRIKE_OUT"}
Colours == {"YELLOW", "GREEN", "BLUE", "RED"}

\* ------------------------------------------------------------ arithmetic
Abs(x) == IF x < 0 THEN -x ELSE x
Min2(a, b) == IF a < b THEN a ELSE b
Max2(a, b) == IF a > b THEN a ELSE b
Min4(a, b, c, d) == Min2(Min2(a, b), Min2(c, d))
Max4(a, b, c, d) == Max2(Max2(a, b), Max2(c, d))

\* a double stored into a float: nearest multiple of FloatStep, ties to even
ToFloat(x) ==
  LET q == x \div FloatStep
      r == x - q * FloatStep
  IN  IF 2 * r < FloatStep THEN q * FloatStep
      ELSE IF 2 * r > FloatStep THEN (q + 1) * FloatStep
      ELSE IF q % 2 = 0 THEN q * FloatStep ELSE (q + 1) * FloatStep

\* the k-th float
F(k) == k * FloatStep

\* ------------------------------------------------------------ colour
\* a mutation of map_color: the GREEN rule tried before the YELLOW rule
map_color_green_first(n, c) ==
  IF n < 3 THEN "YELLOW"
  ELSE LET r == c[1]
           g == c[2]
           b == c[3]
       IN  IF g > 6 /\ g > r /\ g > b THEN "GREEN"
           ELSE IF r > 7 /\ g > 7 /\ b < 5 THEN "YELLOW"
           ELSE IF b > 5 /\ b > r THEN "BLUE"
           ELSE IF r > 6 /\ r > g /\ r > b THEN "RED"
           ELSE "YELLOW"

\* annotations.c map_color: float channels against float literals
map_color(n, c) ==
  IF n < 3 THEN "YELLOW"
  ELSE LET r == c[1]
           g == c[2]
           b == c[3]
       IN  IF r > 7 /\ g > 7 /\ b < 5 THEN "YELLOW"
           ELSE IF g > 6 /\ g > r /\ g > b THEN "GREEN"
           ELSE IF b > 5 /\ b > r THEN "BLUE"
           ELSE IF r > 6 /\ r > g /\ r > b THEN "RED"
           ELSE "YELLOW"

\* The float nearest to k/10, promoted to double, on a grid 4 times finer:
\* 0.1f 0.2f 0.3f 0.4f 0.6f 0.8f lie above the decimal, 0.7f 0.9f below it,
\* 0, 0.5f and 1.0f are exact.
FloatAsDouble(k) ==
  4 * k + (IF k \in {1, 2, 3, 4, 6, 8} THEN 1 ELSE IF k \in {7, 9} THEN -1 ELSE 0)

\* the double literal k/10 on the same grid
DoubleLit(k) == 4 * k

\* page.c map_pdf_color_to_highlight: float channels against double literals
map_pdf_color_to_highlight(r, g, b) ==
  LET R == FloatAsDouble(r)
      G == FloatAsDouble(g)
      B == FloatAsDouble(b)
  IN  IF R > DoubleLit(8) /\ G > DoubleLit(8) /\ B < DoubleLit(3) THEN "YELLOW"
      ELSE IF R < DoubleLit(3) /\ G > DoubleLit(7) /\ B < DoubleLit(3) THEN "GREEN"
      ELSE IF R < DoubleLit(5) /\ G < DoubleLit(8) /\ B > DoubleLit(6) THEN "BLUE"
      ELSE IF R > DoubleLit(7) /\ G < DoubleLit(3) /\ B < DoubleLit(3) THEN "RED"
      ELSE "YELLOW"

\* a mutation of get_color_rgb: the GREEN case carries the triple of YELLOW
get_color_rgb_pasted(color) ==
  CASE color = "YELLOW" -> <<10, 10, 0>>
    [] color = "GREEN"  -> <<10, 10, 0>>
    [] color = "BLUE"   -> <<0, 5, 10>>
    [] color = "RED"    -> <<10, 0, 0>>
    [] OTHER            -> <<10, 10, 0>>

\* annotations.c get_color_rgb
get_color_rgb(color) ==
  CASE color = "YELLOW" -> <<10, 10, 0>>
    [] color = "GREEN"  -> <<0, 10, 0>>
    [] color = "BLUE"   -> <<0, 5, 10>>
    [] color = "RED"    -> <<10, 0, 0>>
    [] OTHER            -> <<10, 10, 0>>

\* ------------------------------------------------------------ geometry
Pt(x, y) == [x |-> x, y |-> y]
Quad(ul, ur, ll, lr) == [ul |-> ul, ur |-> ur, ll |-> ll, lr |-> lr]
Rect(x1, y1, x2, y2) == [x1 |-> x1, y1 |-> y1, x2 |-> x2, y2 |-> y2]
FzRect(x0, y0, x1, y1) == [x0 |-> x0, y0 |-> y0, x1 |-> x1, y1 |-> y1]

\* MuPDF fz_rect_from_quad: the axis-aligned bounding box of the four corners
fz_rect_from_quad(q) ==
  FzRect(Min4(q.ul.x, q.ur.x, q.ll.x, q.lr.x), Min4(q.ul.y, q.ur.y, q.ll.y, q.lr.y),
         Max4(q.ul.x, q.ur.x, q.ll.x, q.lr.x), Max4(q.ul.y, q.ur.y, q.ll.y, q.lr.y))

\* annotations.c:161-176, quad -> zathura rectangle, Y flipped
QuadToRect(q, page_height) ==
  LET r == fz_rect_from_quad(q)
  IN  Rect(r.x0, page_height - r.y1, r.x1, page_height - r.y0)

\* page.c:459-467, quad -> rectangle: the bounding box as it is, Y not flipped
QuadToRectPage(q) ==
  LET r == fz_rect_from_quad(q)
  IN  Rect(r.x0, r.y0, r.x1, r.y1)

\* a mutation of RectToQuad: the Y of the quad taken without the flip
RectToQuad_noflip(rect, page_height) ==
  Quad(Pt(ToFloat(rect.x1), ToFloat(rect.y1)),
       Pt(ToFloat(rect.x2), ToFloat(rect.y1)),
       Pt(ToFloat(rect.x1), ToFloat(rect.y2)),
       Pt(ToFloat(rect.x2), ToFloat(rect.y2)))

\* annotations.c:336-343, zathura rectangle -> quad of floats
RectToQuad(rect, page_height) ==
  Quad(Pt(ToFloat(rect.x1), ToFloat(page_height - rect.y1)),
       Pt(ToFloat(rect.x2), ToFloat(page_height - rect.y1)),
       Pt(ToFloat(rect.x1), ToFloat(page_height - rect.y2)),
       Pt(ToFloat(rect.x2), ToFloat(page_height - rect.y2)))

\* a mutation of rect_matches: a difference of exactly eps still matches
rect_matches_closed(zr, x0, y0, x1, y1, page_height, eps) ==
  LET z_y1 == page_height - y1
      z_y2 == page_height - y0
  IN  /\ Abs(zr.x1 - x0) <= eps
      /\ Abs(zr.x2 - x1) <= eps
      /\ Abs(zr.y1 - z_y1) <= eps
      /\ Abs(zr.y2 - z_y2) <= eps

\* annotations.c rect_matches
rect_matches(zr, x0, y0, x1, y1, page_height, eps) ==
  LET z_y1 == page_height - y1
      z_y2 == page_height - y0
  IN  /\ Abs(zr.x1 - x0) < eps
      /\ Abs(zr.x2 - x1) < eps
      /\ Abs(zr.y1 - z_y1) < eps
      /\ Abs(zr.y2 - z_y2) < eps

\* annotations.c annot_geometry_matches
annot_geometry_matches(annot, rects, page_height) ==
  /\ Len(annot.quads) = Len(rects)
  /\ \A i \in 1..Len(annot.quads) :
       LET r == fz_rect_from_quad(annot.quads[i])
       IN  rect_matches(rects[i], r.x0, r.y0, r.x1, r.y1, page_height, Eps)

\* ------------------------------------------------------------ sequences
Idx(n) == [i \in 1..n |-> i]
SetMin(S) == CHOOSE m \in S : \A x \in S : m <= x
SetMax(S) == CHOOSE m \in S : \A x \in S : m >= x
\* the sequence s without its k-th element
RemoveAt(s, k) == [i \in 1..(Len(s) - 1) |-> IF i < k THEN s[i] ELSE s[i + 1]]
\* the least element of a non-empty set of indices, 0 for the empty set
FirstOf(S) == IF S = {} THEN 0 ELSE SetMin(S)

\* ------------------------------------------------------------ native data
\* one native annotation: its kind, quad points, colour (n channels), rectangle
\* and contents
Annot(type, quads, n, color, rect, contents) ==
  [type |-> type, quads |-> quads, n |-> n, color |-> color, rect |-> rect,
   contents |-> contents]

\* zathura_highlight_new(page, rects, color, text); the synthetic id is left out
Highlight(page, rects, color, text) ==
  [page |-> page, rects |-> rects, rects_null |-> FALSE, color |-> color, text |-> text]

\* zathura_note_t; the synthetic id is left out
Note(page, x, y, content) == [page |-> page, x |-> x, y |-> y, content |-> content]

\* fz_union_rect over the quads of one annotation, starting from fz_empty_rect
AnnotRect(quads) ==
  LET rs == {fz_rect_from_quad(quads[i]) : i \in 1..Len(quads)}
  IN  FzRect(SetMin({r.x0 : r \in rs}), SetMin({r.y0 : r \in rs}),
             SetMax({r.x1 : r \in rs}), SetMax({r.y1 : r \in rs}))

\* ------------------------------------------------------------ state
VARIABLES
  annots,          \* the page's native annotation list, in iteration order
  mutex,           \* mupdf_document->mutex: Free or the thread holding it
  extracted_text,  \* mupdf_page->extracted_text
  is_pdf,          \* whether pdf_page_from_fz_page gives a pdf_page
  page_height,     \* zathura_page_get_height(page)
  page_id,         \* zathura_page_get_index(page)
  active,          \* the threads that call into the plugin
  aborted,         \* the process has exited on an uncaught MuPDF error
  edits,           \* calls made so far that may change the page
  pc,              \* per thread: where it is in its call
  op,              \* per thread: the function it is in
  arg,             \* per thread: the arguments of the call
  loc,             \* per thread: locals that live across steps
  ret,             \* per thread: what the call returned
  faults,          \* per thread: what its current call has met, a native
                   \* failure (thrown), or a failed allocation or a
                   \* pdf_create_annot that gave NULL (oom)
  sem,             \* semantic colour being written as RGB, or "NONE"
  cin,             \* colour sample under classification
  cout,            \* result of the two classifiers for cin
  matched          \* result of annot_geometry_matches: "YES", "NO", or "NONE"

vars == <<annots, mutex, extracted_text, is_pdf, page_height, page_id, active,
          aborted, edits, pc, op, arg, loc, ret, faults, sem, cin, cout, matched>>

page_vars == <<is_pdf, page_height, page_id, active>>
colour_vars == <<sem, cin, cout, matched>>

Ops == {"pdf_page_get_annotations", "pdf_page_export_annotations",
        "pdf_page_delete_annotation", "pdf_page_get_notes", "pdf_page_delete_note",
        "pdf_page_update_note_content", "pdf_page_get_annotations_page",
        "pdf_page_export_notes"}

\* the functions that allocate their result list before locking
ListOps == {"pdf_page_get_annotations", "pdf_page_get_notes",
            "pdf_page_get_annotations_page"}
ExportOps == {"pdf_page_export_annotations", "pdf_page_export_notes"}
EditOps == ExportOps \cup {"pdf_page_delete_annotation", "pdf_page_delete_note",
                           "pdf_page_update_note_content"}

\* what a call hands back: the status, and the list or NULL
\* exported: the count an export logs before it returns
Result(status, null, list) ==
  [status |-> status, null |-> null, list |-> list, exported |-> 0]
NoResult == Result("NONE", TRUE, <<>>)

\* how a code path leaves the function: whether it unlocks, and the result
Exit(unlock, status, null, list) ==
  [unlock |-> unlock, result |-> Result(status, null, list)]

\* how an export leaves: Exit with the count it logs
ExportExit(status, exported) ==
  [unlock |-> TRUE, result |-> [Result(status, TRUE, <<>>) EXCEPT !.exported = exported]]

NoLoc == [data |-> <<>>, before |-> 0, result |-> "NONE"]

\* ------------------------------------------------------------ arguments
\* The arguments of a call.  page, data, npage (mupdf_page->page), document,
\* mupdf_document and ctx say whether the pointer is non-NULL; list_null says
\* whether the list argument is NULL; content is NullStr for a NULL string.
Arg(list_null, list, x, y, content) ==
  [page |-> TRUE, data |-> TRUE, npage |-> TRUE, document |-> TRUE,
   mupdf_document |-> TRUE, ctx |-> TRUE,
   list_null |-> list_null, list |-> list, x |-> x, y |-> y, content |-> content]

NoArg == Arg(TRUE, <<>>, 0, 0, NullStr)

WithMissing(a, m) ==
  CASE m = "page"           -> [a EXCEPT !.page = FALSE]
    [] m = "data"           -> [a EXCEPT !.data = FALSE]
    [] m = "npage"          -> [a EXCEPT !.npage = FALSE]
    [] m = "document"       -> [a EXCEPT !.document = FALSE]
    [] m = "mupdf_document" -> [a EXCEPT !.mupdf_document = FALSE]
    [] m = "ctx"            -> [a EXCEPT !.ctx = FALSE]
    [] OTHER                -> a

\* zathura_page_get_document(page): NULL for a NULL page, else the page's document
zathura_page_get_document(a) == a.page /\ a.document

\* annotations.c:53-76, the checks of pdf_page_get_annotations before the lock
get_annotations_check(a) ==
  IF ~a.page \/ ~a.data THEN "INVALID_ARGUMENTS"
  ELSE IF ~zathura_page_get_document(a) \/ ~a.npage THEN "INVALID_ARGUMENTS"
  ELSE IF ~a.mupdf_document \/ ~a.ctx THEN "INVALID_ARGUMENTS"
  ELSE "PROCEED"

\* annotations.c:274-288, the checks of pdf_page_export_annotations
export_annotations_check(a) ==
  IF ~a.page \/ ~a.data \/ a.list_null THEN "INVALID_ARGUMENTS"
  ELSE IF ~zathura_page_get_document(a) \/ ~a.npage THEN "INVALID_ARGUMENTS"
  ELSE IF ~a.mupdf_document \/ ~a.ctx THEN "INVALID_ARGUMENTS"
  ELSE "PROCEED"

\* annotations.c:428-442, the checks of pdf_page_delete_annotation
delete_annotation_check(a) ==
  IF ~a.page \/ ~a.data \/ a.list_null THEN "INVALID_ARGUMENTS"
  ELSE IF ~zathura_page_get_document(a) \/ ~a.npage THEN "INVALID_ARGUMENTS"
  ELSE IF ~a.mupdf_document \/ ~a.ctx THEN "INVALID_ARGUMENTS"
  ELSE "PROCEED"

\* page.c:123-137, the checks of pdf_page_get_notes
get_notes_check(a) ==
  IF ~a.data \/ ~a.npage THEN "INVALID_ARGUMENTS"
  ELSE IF ~zathura_page_get_document(a) THEN "INVALID_ARGUMENTS"
  ELSE "PROCEED"

\* page.c:203-211, the checks of pdf_page_delete_note
delete_note_check(a) ==
  IF ~a.data \/ ~a.npage THEN "INVALID_ARGUMENTS"
  ELSE IF ~zathura_page_get_document(a) THEN "INVALID_ARGUMENTS"
  ELSE "PROCEED"

\* a mutation of update_note_content_check: the content is not checked
update_note_content_check_late(a) ==
  IF ~a.data \/ ~a.npage THEN "INVALID_ARGUMENTS"
  ELSE IF ~zathura_page_get_document(a) THEN "INVALID_ARGUMENTS"
  ELSE "PROCEED"

\* page.c:252-264, the checks of pdf_page_update_note_content
update_note_content_check(a) ==
  IF ~a.data \/ ~a.npage THEN "INVALID_ARGUMENTS"
  ELSE IF a.content = NullStr THEN "INVALID_ARGUMENTS"
  ELSE IF ~zathura_page_get_document(a) THEN "INVALID_ARGUMENTS"
  ELSE "PROCEED"

\* page.c:383-397, the checks of the page.c pdf_page_get_annotations
get_annotations_page_check(a) ==
  IF ~a.data \/ ~a.npage THEN "INVALID_ARGUMENTS"
  ELSE IF ~zathura_page_get_document(a) THEN "INVALID_ARGUMENTS"
  ELSE "PROCEED"

\* page.c:530-542, the checks of pdf_page_export_notes; an empty or NULL list
\* of notes returns OK before the document is looked at
export_notes_check(a) ==
  IF ~a.data \/ ~a.npage THEN "INVALID_ARGUMENTS"
  ELSE IF a.list_null \/ Len(a.list) = 0 THEN "OK"
  ELSE IF ~zathura_page_get_document(a) THEN "INVALID_ARGUMENTS"
  ELSE "PROCEED"

\* the checks a function makes before it locks: PROCEED, or the status returned
Check(o, a) ==
  CASE o = "pdf_page_get_annotations"      -> get_annotations_check(a)
    [] o = "pdf_page_export_annotations"   -> export_annotations_check(a)
    [] o = "pdf_page_delete_annotation"    -> delete_annotation_check(a)
    [] o = "pdf_page_get_notes"            -> get_notes_check(a)
    [] o = "pdf_page_delete_note"          -> delete_note_check(a)
    [] o = "pdf_page_update_note_content"  -> update_note_content_check(a)
    [] o = "pdf_page_get_annotations_page" -> get_annotations_page_check(a)
    [] o = "pdf_page_export_notes"         -> export_notes_check(a)

\* the return taken when pdf_page_from_fz_page gives NULL: annotations.c:93-101,
\* 300-304, 454-458; page.c:155-162, 220-223, 275-279, 416-423, 551-555
NotPdfExit(o) ==
  CASE o = "pdf_page_get_annotations"      -> Exit(TRUE, "UNKNOWN", TRUE, <<>>)
    [] o = "pdf_page_export_annotations"   -> Exit(TRUE, "UNKNOWN", TRUE, <<>>)
    [] o = "pdf_page_delete_annotation"    -> Exit(TRUE, "UNKNOWN", TRUE, <<>>)
    [] o = "pdf_page_get_notes"            -> Exit(TRUE, "OK", FALSE, <<>>)
    [] o = "pdf_page_delete_note"          -> Exit(TRUE, "UNKNOWN", TRUE, <<>>)
    [] o = "pdf_page_update_note_content"  -> Exit(TRUE, "UNKNOWN", TRUE, <<>>)
    [] o = "pdf_page_get_annotations_page" -> Exit(TRUE, "OK", FALSE, <<>>)
    [] o = "pdf_page_export_notes"         -> Exit(TRUE, "UNKNOWN", TRUE, <<>>)

\* where a function goes on after pdf_page_from_fz_page gave a pdf_page
FirstStep(o) ==
  CASE o = "pdf_page_get_annotations"      -> "collect"
    [] o = "pdf_page_update_note_content"  -> "count_before"
    [] OTHER                               -> "body"

\* ------------------------------------------------------------ environment
\* One allocation of a call may fail: g_try_malloc0 or a list constructor gives
\* NULL for annotation k (and quad i).  site "none": every allocation succeeds.
Oom(site, k, i) == [site |-> site, k |-> k, i |-> i]
NoOom == Oom("none", 0, 0)
OomAt(oom, site, k, i) == oom.site = site /\ oom.k = k /\ oom.i = i

\* the allocations of a read of the list as that can fail
ReadOoms(as, sites) ==
  {NoOom} \cup
  {Oom(st, k, 0) : st \in sites \ {"rect"},
                   k \in {j \in 1..Len(as) : as[j].type \in Markup /\ Len(as[j].quads) > 0}} \cup
  UNION {{Oom("rect", k, i) : i \in 1..Len(as[k].quads)} :
           k \in {j \in 1..Len(as) : "rect" \in sites /\ as[j].type \in Markup}}

\* ------------------------------------------------------------ pdf_page_get_annotations
\* annotations.c:157-179, the rectangles built for annotation k
CollectRects(a, k, ph, oom) ==
  LET kept == SelectSeq(Idx(Len(a.quads)), LAMBDA i : ~OomAt(oom, "rect", k, i))
  IN  [j \in 1..Len(kept) |-> QuadToRect(a.quads[kept[j]], ph)]

\* annotations.c:134-202, whether annotation k ends up in annot_data_list
Collected(as, k, ph, oom) ==
  /\ as[k].type \in Markup
  /\ Len(as[k].quads) > 0
  /\ ~OomAt(oom, "rects", k, 0)
  /\ Len(CollectRects(as[k], k, ph, oom)) > 0
  /\ ~OomAt(oom, "data", k, 0)

\* a mutation of CollectData: annotations without quad points are kept too
CollectData_keep_empty(as, ph, oom) ==
  LET kept == SelectSeq(Idx(Len(as)), LAMBDA k : as[k].type \in Markup)
  IN  [j \in 1..Len(kept) |->
         [rects |-> CollectRects(as[kept[j]], kept[j], ph, oom),
          color |-> map_color(as[kept[j]].n, as[kept[j]].color),
          annot_rect |-> FzRect(0, 0, 0, 0)]]

\* annotations.c:128-204, phase 1 without a failure: annot_data_list
CollectData(as, ph, oom) ==
  LET kept == SelectSeq(Idx(Len(as)), LAMBDA k : Collected(as, k, ph, oom))
  IN  [j \in 1..Len(kept) |->
         [rects |-> CollectRects(as[kept[j]], kept[j], ph, oom),
          color |-> map_color(as[kept[j]].n, as[kept[j]].color),
          annot_rect |-> AnnotRect(as[kept[j]].quads)]]

\* a mutation of get_annotations_catch: the catch block forgets the unlock
get_annotations_catch_leak == Exit(FALSE, "UNKNOWN", TRUE, <<>>)

\* annotations.c:205-214, the catch block of phase 1
get_annotations_catch == Exit(TRUE, "UNKNOWN", TRUE, <<>>)

\* annotations.c:116-123, annot_data_list could not be allocated
get_annotations_oom == Exit(TRUE, "OUT_OF_MEMORY", TRUE, <<>>)

\* annotations.c:217-238, phase 2: one highlight per entry of annot_data_list,
\* unless zathura_highlight_new gives NULL (entry oomj)
BuildHighlights(data, pid, oomj) ==
  LET kept == SelectSeq(Idx(Len(data)), LAMBDA j : j # oomj)
  IN  [m \in 1..Len(kept) |->
         Highlight(pid, data[kept[m]].rects, data[kept[m]].color, "sel")]

\* annotations.c:240-248, the normal return
get_annotations_done(list) == Exit(TRUE, "OK", FALSE, list)

\* ------------------------------------------------------------ page.c pdf_page_get_annotations
\* page.c:447-470
PageRects(a, k, oom) ==
  LET kept == SelectSeq(Idx(Len(a.quads)), LAMBDA i : ~OomAt(oom, "rect", k, i))
  IN  [j \in 1..Len(kept) |-> QuadToRectPage(a.quads[kept[j]])]

\* page.c:478-485
page_color(a) ==
  IF a.n >= 3 THEN map_pdf_color_to_highlight(a.color[1], a.color[2], a.color[3])
  ELSE "YELLOW"

\* page.c:426-512, the highlights appended while iterating annotations 1..upto
PageHighlights(as, upto, pid, oom) ==
  LET kept == SelectSeq(Idx(upto), LAMBDA k :
                 /\ as[k].type \in Markup
                 /\ Len(as[k].quads) > 0
                 /\ ~OomAt(oom, "rects", k, 0)
                 /\ Len(PageRects(as[k], k, oom)) > 0
                 /\ ~OomAt(oom, "highlight", k, 0))
  IN  [j \in 1..Len(kept) |->
         Highlight(pid, PageRects(as[kept[j]], kept[j], oom), page_color(as[kept[j]]),
                   IF as[kept[j]].contents \in {NullStr, ""} THEN NullStr
                   ELSE as[kept[j]].contents)]

\* page.c:425-526: a failure at annotation exc ends the loop, what was appended
\* before it is returned with OK
get_annotations_page_body(as, pid, exc, oom) ==
  Exit(TRUE, "OK", FALSE,
       PageHighlights(as, IF exc = 0 THEN Len(as) ELSE exc - 1, pid, oom))

\* ------------------------------------------------------------ pdf_page_get_notes
\* a mutation of get_notes_body: a native failure discards the notes and
\* reports UNKNOWN
get_notes_body_discard(as, pid, exc, oom) ==
  LET kept == SelectSeq(Idx(Len(as)), LAMBDA k :
                 as[k].type = "TEXT" /\ ~OomAt(oom, "note", k, 0))
  IN  IF exc # 0 THEN Exit(TRUE, "UNKNOWN", TRUE, <<>>)
      ELSE Exit(TRUE, "OK", FALSE,
                [j \in 1..Len(kept) |->
                   Note(pid, as[kept[j]].rect.x0, as[kept[j]].rect.y0, as[kept[j]].contents)])

\* page.c:164-199: one note per TEXT annotation before the failure (if any),
\* unless its allocation fails; the status is OK either way
get_notes_body(as, pid, exc, oom) ==
  LET upto == IF exc = 0 THEN Len(as) ELSE exc - 1
      kept == SelectSeq(Idx(upto), LAMBDA k :
                 as[k].type = "TEXT" /\ ~OomAt(oom, "note", k, 0))
  IN  Exit(TRUE, "OK", FALSE,
           [j \in 1..Len(kept) |->
              Note(pid, as[kept[j]].rect.x0, as[kept[j]].rect.y0, as[kept[j]].contents)])

NoteOoms(as) ==
  {NoOom} \cup {Oom("note", k, 0) : k \in {j \in 1..Len(as) : as[j].type = "TEXT"}}

\* ------------------------------------------------------------ exports
\* A native failure of an export: item `at` throws in stage `stage` (at = 0: no
\* failure).  nulls: the items for which pdf_create_annot gives NULL.
Exc(at, stage) == [at |-> at, stage |-> stage]
NoExc == Exc(0, "none")

\* what pdf_create_annot leaves on the page before anything is set
NewAnnot(type) == Annot(type, <<>>, 0, <<0, 0, 0>>, FzRect(0, 0, 0, 0), "")

HasText(str) == str # NullStr /\ str # ""

\* a mutation of ExportQualifies: a highlight without rectangles is not skipped
ExportQualifies_keep_empty(hl, pid) == hl.page = pid

\* annotations.c:316-325, the highlights the loop does not skip
ExportQualifies(hl, pid) == hl.page = pid /\ ~hl.rects_null /\ Len(hl.rects) > 0

\* a mutation of HighlightQuads: the quads are written last rectangle first
HighlightQuads_reversed(hl, ph) ==
  [i \in 1..Len(hl.rects) |-> RectToQuad(hl.rects[Len(hl.rects) + 1 - i], ph)]

\* annotations.c:328-345, the quad array of a highlight
HighlightQuads(hl, ph) == [i \in 1..Len(hl.rects) |-> RectToQuad(hl.rects[i], ph)]

\* annotations.c:348-372, the annotation of a highlight once `stage` has thrown
\* ("done": nothing has thrown)
HighlightAnnot(hl, ph, stage) ==
  LET quads == HighlightQuads(hl, ph)
  IN  CASE stage = "quads" -> NewAnnot("HIGHLIGHT")
        [] stage = "color" -> [NewAnnot("HIGHLIGHT") EXCEPT !.quads = quads]
        [] stage = "contents" ->
             [NewAnnot("HIGHLIGHT") EXCEPT !.quads = quads, !.n = 3,
                                           !.color = get_color_rgb(hl.color)]
        [] OTHER ->
             [NewAnnot("HIGHLIGHT") EXCEPT !.quads = quads, !.n = 3,
                                           !.color = get_color_rgb(hl.color),
                                           !.contents = IF HasText(hl.text) THEN hl.text ELSE ""]

\* the failures an export of highlights can meet
ExportExcs(items, pid, stages) ==
  {NoExc} \cup
  {Exc(j, st) : j \in {m \in 1..Len(items) : ExportQualifies(items[m], pid)},
                st \in stages}

\* annotations.c:309-386: the annotations appended, the count and the status
export_annotations_body(items, ph, pid, exc, nulls) ==
  LET upto == IF exc.at = 0 THEN Len(items) ELSE exc.at - 1
      full == SelectSeq(Idx(upto), LAMBDA j :
                 ExportQualifies(items[j], pid) /\ j \notin nulls)
      done == [m \in 1..Len(full) |-> HighlightAnnot(items[full[m]], ph, "done")]
      part == IF exc.at = 0 \/ exc.stage = "create" THEN <<>>
              ELSE IF exc.stage = "contents" /\ ~HasText(items[exc.at].text)
                   THEN <<HighlightAnnot(items[exc.at], ph, "update")>>
              ELSE <<HighlightAnnot(items[exc.at], ph, exc.stage)>>
  IN  [added |-> done \o part,
       exit |-> ExportExit(IF exc.at = 0 THEN "OK" ELSE "UNKNOWN", Len(full))]

\* page.c:563-580, the annotation of a note once `stage` has thrown
NoteAnnot(note, stage) ==
  LET rect == FzRect(ToFloat(note.x), ToFloat(note.y),
                     ToFloat(note.x + NoteIcon), ToFloat(note.y + NoteIcon))
  IN  CASE stage = "rect" -> NewAnnot("TEXT")
        [] stage = "contents" -> [NewAnnot("TEXT") EXCEPT !.rect = rect]
        [] OTHER ->
             [NewAnnot("TEXT") EXCEPT !.rect = rect,
                                      !.contents = IF HasText(note.content)
                                                   THEN note.content ELSE ""]

NoteExcs(items, stages) ==
  {NoExc} \cup {Exc(j, st) : j \in 1..Len(items), st \in stages}

\* page.c:557-596: every note of the list gets an annotation, whatever its page
export_notes_body(items, exc, nulls) ==
  LET upto == IF exc.at = 0 THEN Len(items) ELSE exc.at - 1
      full == SelectSeq(Idx(upto), LAMBDA j : j \notin nulls)
      done == [m \in 1..Len(full) |-> NoteAnnot(items[full[m]], "done")]
      part == IF exc.at = 0 \/ exc.stage = "create" THEN <<>>
              ELSE IF exc.stage = "contents" /\ ~HasText(items[exc.at].content)
                   THEN <<NoteAnnot(items[exc.at], "update")>>
              ELSE <<NoteAnnot(items[exc.at], exc.stage)>>
  IN  [added |-> done \o part,
       exit |-> ExportExit(IF exc.at = 0 THEN "OK" ELSE "UNKNOWN", Len(full))]

\* ------------------------------------------------------------ deletes and update
\* a mutation of FirstMatch: the scan keeps going and takes the last match
FirstMatch_last(as, rects, ph) ==
  LET S == {k \in 1..Len(as) :
              as[k].type \in Markup /\ annot_geometry_matches(as[k], rects, ph)}
  IN  IF S = {} THEN 0 ELSE SetMax(S)

\* annotations.c:468-488, the first markup annotation whose geometry matches (0: none)
FirstMatch(as, rects, ph) ==
  FirstOf({k \in 1..Len(as) :
             as[k].type \in Markup /\ annot_geometry_matches(as[k], rects, ph)})

\* a mutation of FirstNote: a difference of exactly eps still matches
FirstNote_closed(as, x, y) ==
  FirstOf({k \in 1..Len(as) :
             /\ as[k].type = "TEXT"
             /\ Abs(as[k].rect.x0 - x) <= Eps
             /\ Abs(as[k].rect.y0 - y) <= Eps})

\* page.c:229-241 and 301-321, the first TEXT annotation within eps of (x, y)
FirstNote(as, x, y) ==
  FirstOf({k \in 1..Len(as) :
             /\ as[k].type = "TEXT"
             /\ Abs(as[k].rect.x0 - x) < Eps
             /\ Abs(as[k].rect.y0 - y) < Eps})

\* the annotations at which the scan for `first` can throw; took: whether the
\* native call on the match had taken effect before it threw
ScanExcs(as, first) ==
  {[at |-> 0, took |-> FALSE]} \cup
  {[at |-> k, took |-> FALSE] : k \in 1..(IF first = 0 THEN Len(as) ELSE first)} \cup
  {[at |-> first, took |-> TRUE] : k \in {first} \ {0}}

\* annotations.c:463-506
delete_annotation_body(as, rects, ph, exc) ==
  LET first == FirstMatch(as, rects, ph)
  IN  IF exc.at # 0
      THEN [annots |-> IF exc.took THEN RemoveAt(as, first) ELSE as,
            exit |-> Exit(TRUE, "UNKNOWN", TRUE, <<>>)]
      ELSE IF first # 0
      THEN [annots |-> RemoveAt(as, first), exit |-> Exit(TRUE, "OK", TRUE, <<>>)]
      ELSE [annots |-> as, exit |-> Exit(TRUE, "UNKNOWN", TRUE, <<>>)]

\* page.c:225-248
delete_note_body(as, x, y, exc) ==
  LET first == FirstNote(as, x, y)
  IN  IF exc.at # 0
      THEN [annots |-> IF exc.took THEN RemoveAt(as, first) ELSE as,
            exit |-> Exit(TRUE, "UNKNOWN", TRUE, <<>>)]
      ELSE IF first # 0
      THEN [annots |-> RemoveAt(as, first), exit |-> Exit(TRUE, "OK", TRUE, <<>>)]
      ELSE [annots |-> as, exit |-> Exit(TRUE, "UNKNOWN", TRUE, <<>>)]

\* page.c:285-297 and 328-340: TEXT annotations counted before the failure, if any
CountText(as, exc) ==
  Cardinality({k \in 1..(IF exc = 0 THEN Len(as) ELSE exc - 1) : as[k].type = "TEXT"})

\* a mutation of update_note_content_body: the pass does not stop at the first
\* note in range and sets the content of every one
update_note_content_body_all(as, x, y, content, exc) ==
  LET first == FirstNote(as, x, y)
      set == [k \in 1..Len(as) |->
                IF /\ as[k].type = "TEXT"
                   /\ Abs(as[k].rect.x0 - x) < Eps
                   /\ Abs(as[k].rect.y0 - y) < Eps
                THEN [as[k] EXCEPT !.contents = content] ELSE as[k]]
  IN  IF exc.at # 0
      THEN [annots |-> IF exc.took THEN set ELSE as, result |-> "UNKNOWN"]
      ELSE IF first # 0
      THEN [annots |-> set, result |-> "OK"]
      ELSE [annots |-> as, result |-> "UNKNOWN"]

\* page.c:300-325: the list after the update pass and its result
update_note_content_body(as, x, y, content, exc) ==
  LET first == FirstNote(as, x, y)
      set == [as EXCEPT ![first].contents = content]
  IN  IF exc.at # 0
      THEN [annots |-> IF exc.took THEN set ELSE as, result |-> "UNKNOWN"]
      ELSE IF first # 0
      THEN [annots |-> set, result |-> "OK"]
      ELSE [annots |-> as, result |-> "UNKNOWN"]

\* ------------------------------------------------------------ inputs
\* native annotations the pages are made of
QuadA == Quad(Pt(F(2), F(22)), Pt(F(6), F(22)), Pt(F(2), F(20)), Pt(F(6), F(20)))
\* a quad whose corners are wound differently and not axis-aligned
QuadB == Quad(Pt(F(9), F(10)), Pt(F(7), F(12)), Pt(F(8), F(13)), Pt(F(10), F(11)))

AnnotHighlight == Annot("HIGHLIGHT", <<QuadA>>, 3, <<10, 10, 0>>, FzRect(0, 0, 0, 0), "")
AnnotUnderline ==
  Annot("UNDERLINE", <<QuadB, QuadA>>, 3, <<0, 6, 6>>, AnnotRect(<<QuadB, QuadA>>), "t")
AnnotStrikeOut == Annot("STRIKE_OUT", <<>>, 1, <<5, 0, 0>>, FzRect(0, 0, 0, 0), "")
AnnotText ==
  Annot("TEXT", <<>>, 3, <<10, 10, 0>>, FzRect(F(13), F(13), F(13) + NoteIcon, F(13) + NoteIcon), "n")
AnnotInk == Annot("INK", <<>>, 0, <<0, 0, 0>>, FzRect(0, 0, F(1), F(1)), NullStr)
\* QuadA moved right by one float: less than eps away from QuadA
QuadC == Quad(Pt(F(3), F(22)), Pt(F(7), F(22)), Pt(F(3), F(20)), Pt(F(7), F(20)))
AnnotStrikeNear == Annot("STRIKE_OUT", <<QuadC>>, 3, <<10, 0, 0>>, AnnotRect(<<QuadC>>), "")
\* a note one float right of AnnotText, without contents
AnnotTextNear ==
  Annot("TEXT", <<>>, 0, <<0, 0, 0>>, FzRect(F(14), F(13), F(14) + NoteIcon, F(13) + NoteIcon), "")

\* the pages a run starts from; with several threads only the first two
InitPages(n) ==
  IF n > 1 THEN {<<>>, <<AnnotHighlight, AnnotText>>}
  ELSE {<<>>, <<AnnotHighlight, AnnotText>>, <<AnnotStrikeOut, AnnotUnderline>>,
        <<AnnotInk, AnnotUnderline, AnnotHighlight>>,
        <<AnnotText, AnnotStrikeNear, AnnotHighlight>>,
        <<AnnotHighlight, AnnotTextNear, AnnotText>>}

PageHeights(n) == IF n > 1 THEN {F(25)} ELSE {F(25) + 1}

\* host rectangles: RectA is QuadA seen from a page of height F(25); RectB lies
\* off the float grid
RectA(ph) == Rect(F(2), ph - F(22), F(6), ph - F(20))
RectB(ph) == Rect(F(2) + 1, ph - F(22) + 1, F(6) + 3, ph - F(20) + 2)

HighlightNoRects(page, color, text) ==
  [page |-> page, rects |-> <<>>, rects_null |-> TRUE, color |-> color, text |-> text]

HighlightLists(n, ph) ==
  IF n > 1 THEN {<<Highlight(0, <<RectA(ph)>>, "YELLOW", "")>>}
  ELSE {<<>>,
        <<Highlight(0, <<RectA(ph)>>, "YELLOW", "")>>,
        <<Highlight(0, <<RectB(ph), RectA(ph)>>, "BLUE", "t")>>,
        <<Highlight(0, <<>>, "GREEN", "t"), Highlight(1, <<RectA(ph)>>, "GREEN", ""),
          Highlight(0, <<RectB(ph)>>, "RED", NullStr)>>,
        <<HighlightNoRects(0, "RED", ""), Highlight(0, <<RectA(ph)>>, "GREEN", NullStr)>>,
        <<Highlight(0, <<RectA(ph)>>, "GREEN", "t"), Highlight(0, <<RectB(ph)>>, "BLUE", "")>>}

RectLists(n, ph) == IF n > 1 THEN {<<RectA(ph)>>} ELSE {<<>>, <<RectA(ph)>>, <<RectB(ph), RectA(ph)>>}

\* points around the origin of AnnotText: within eps, at eps, 0.4 and 1.6 away
Points(n) ==
  IF n > 1 THEN {<<F(13), F(13)>>}
  ELSE {<<F(13) + 2, F(13) - 3>>, <<F(13), F(13) + Eps>>,
        <<F(13) - FloatStep, F(13) - FloatStep>>,
        <<F(13) + Eps + FloatStep + 2, F(13) + Eps + FloatStep + 2>>}

NoteLists(n) ==
  IF n > 1 THEN {<<Note(0, F(13), F(13), "n")>>}
  ELSE {<<>>, <<Note(0, F(13) + 1, F(13), "n")>>,
        <<Note(1, F(30), F(30), ""), Note(0, F(13), F(40), "m")>>,
        <<Note(0, F(13), F(13), "n"), Note(0, F(30), F(13), "")>>}

\* the pointers one of which may be NULL in a call; page.c dereferences
\* mupdf_document without a check, so its functions are only called with one
Missing(o, n) ==
  IF n > 1 THEN {"none"}
  ELSE IF o \in {"pdf_page_get_annotations", "pdf_page_export_annotations",
                 "pdf_page_delete_annotation"}
  THEN {"none", "page", "data", "npage", "document", "mupdf_document", "ctx"}
  ELSE {"none", "page", "data", "npage", "document"}

\* the list, point and content arguments of a call of o
OwnArgs(o, n, ph) ==
  CASE o = "pdf_page_export_annotations" ->
         {Arg(FALSE, l, 0, 0, NullStr) : l \in HighlightLists(n, ph)} \cup
         {Arg(TRUE, <<>>, 0, 0, NullStr) : k \in {1} \cap {n}}
    [] o = "pdf_page_delete_annotation" ->
         {Arg(FALSE, l, 0, 0, NullStr) : l \in RectLists(n, ph)} \cup
         {Arg(TRUE, <<>>, 0, 0, NullStr) : k \in {1} \cap {n}}
    [] o = "pdf_page_export_notes" ->
         {Arg(FALSE, l, 0, 0, NullStr) : l \in NoteLists(n)} \cup
         {Arg(TRUE, <<>>, 0, 0, NullStr) : k \in {1} \cap {n}}
    [] o = "pdf_page_delete_note" ->
         {Arg(TRUE, <<>>, p[1], p[2], NullStr) : p \in Points(n)}
    [] o = "pdf_page_update_note_content" ->
         {Arg(TRUE, <<>>, p[1], p[2], "c") : p \in Points(n)} \cup
         {Arg(TRUE, <<>>, F(13), F(13), NullStr) : k \in {1} \cap {n}}
    [] OTHER -> {NoArg}

\* the arguments a call with a NULL pointer is made with: for the exports an
\* empty list and one with an item, for the others one list or point
Plain(o, ph) ==
  CASE o = "pdf_page_export_annotations" ->
         {Arg(FALSE, <<>>, 0, 0, NullStr),
          Arg(FALSE, <<Highlight(0, <<RectA(ph)>>, "YELLOW", "")>>, 0, 0, NullStr)}
    [] o = "pdf_page_export_notes" ->
         {Arg(FALSE, <<>>, 0, 0, NullStr),
          Arg(FALSE, <<Note(0, F(13), F(13), "n")>>, 0, 0, NullStr)}
    [] o = "pdf_page_delete_annotation" -> {Arg(FALSE, <<RectA(ph)>>, 0, 0, NullStr)}
    [] o = "pdf_page_delete_note" -> {Arg(TRUE, <<>>, F(13), F(13), NullStr)}
    [] o = "pdf_page_update_note_content" -> {Arg(TRUE, <<>>, F(13), F(13), "c")}
    [] OTHER -> {NoArg}

ArgsFor(o, n, ph) ==
  OwnArgs(o, n, ph) \cup
  {WithMissing(a, m) : a \in Plain(o, ph), m \in Missing(o, n) \ {"none"}}

\* the stages in which an export can throw; with several threads, the first only
HighlightStages(n) ==
  IF n > 1 THEN {"create"} ELSE {"create", "quads", "color", "contents", "update"}
NoteStages(n) == IF n > 1 THEN {"create"} ELSE {"create", "rect", "contents", "update"}

\* ------------------------------------------------------------ initial states
Idle == [t \in Threads |-> "idle"]
NoFaults == [thrown |-> FALSE, oom |-> FALSE]

InitCalls ==
  /\ mutex = Free
  /\ extracted_text = FALSE
  /\ aborted = FALSE
  /\ edits = 0
  /\ pc = Idle
  /\ op = [t \in Threads |-> "none"]
  /\ arg = [t \in Threads |-> NoArg]
  /\ loc = [t \in Threads |-> NoLoc]
  /\ ret = [t \in Threads |-> NoResult]
  /\ faults = [t \in Threads |-> NoFaults]

NoColour == [n |-> -1, c |-> <<0, 0, 0>>]
NoClass == [map_color |-> "NONE", page_color |-> "NONE"]

\* two threads share the document
Init ==
  /\ active = Threads
  /\ annots \in InitPages(2)
  /\ is_pdf \in BOOLEAN
  /\ page_height \in PageHeights(2)
  /\ page_id = 0
  /\ InitCalls
  /\ sem = "NONE"
  /\ cin = NoColour
  /\ cout = NoClass
  /\ matched = "NONE"

\* one thread, the full range of pages and arguments
InitSeq ==
  /\ active = {"t1"}
  /\ annots \in InitPages(1)
  /\ is_pdf \in BOOLEAN
  /\ page_height \in PageHeights(1)
  /\ page_id = 0
  /\ InitCalls
  /\ sem = "NONE"
  /\ cin = NoColour
  /\ cout = NoClass
  /\ matched = "NONE"

\* ------------------------------------------------------------ steps
N == Cardinality(active)

\* thread t runs: it calls into the plugin and the process is alive
Running(t) == t \in active /\ ~aborted

\* the annotations an export in flight can still append
AddCount(o, a) ==
  IF o = "pdf_page_export_annotations"
  THEN Cardinality({j \in 1..Len(a.list) : ExportQualifies(a.list[j], page_id)})
  ELSE IF o = "pdf_page_export_notes" THEN Len(a.list)
  ELSE 0

RECURSIVE Pending(_)
Pending(S) ==
  IF S = {} THEN 0
  ELSE LET u == CHOOSE v \in S : TRUE
       IN  (IF pc[u] \notin {"idle", "ret"} THEN AddCount(op[u], arg[u]) ELSE 0)
           + Pending(S \ {u})

\* a mutation of Locks: pdf_page_export_notes never takes the mutex
Locks_not_export_notes(o) == o # "pdf_page_export_notes"

\* the functions that take mupdf_document->mutex before touching the page:
\* annotations.c:87, 294, 448; page.c:151, 216, 271, 412, 547
Locks(o) == o \in Ops

\* thread t leaves its function by exit e
Leave(t, e) ==
  /\ pc' = [pc EXCEPT ![t] = "ret"]
  /\ ret' = [ret EXCEPT ![t] = e.result]
  /\ loc' = [loc EXCEPT ![t] = NoLoc]
  /\ mutex' = IF e.unlock THEN Free ELSE mutex

\* what the call of thread t meets in a step
Meets(t, thrown, oom) ==
  faults' = [faults EXCEPT ![t] = [thrown |-> @.thrown \/ thrown, oom |-> @.oom \/ oom]]

\* thread t goes on to step p, holding what it holds
Goto(t, p) ==
  /\ pc' = [pc EXCEPT ![t] = p]
  /\ UNCHANGED <<ret, mutex>>

\* a function is called: its checks, and the allocation of its result list
Call(t) ==
  /\ Running(t)
  /\ pc[t] = "idle"
  /\ \E o \in Ops : \E a \in ArgsFor(o, N, page_height) : \E oom \in BOOLEAN :
       /\ oom => (o \in ListOps /\ Check(o, a) = "PROCEED")
       /\ (o \in EditOps /\ Check(o, a) = "PROCEED") => (N > 1 \/ edits < MaxEdits)
       /\ edits' = IF o \in EditOps /\ Check(o, a) = "PROCEED" /\ N = 1
                   THEN edits + 1 ELSE edits
       /\ (o \in ExportOps /\ Check(o, a) = "PROCEED")
            => Len(annots) + Pending(Threads) + AddCount(o, a) <= MaxAnnots
       /\ op' = [op EXCEPT ![t] = o]
       /\ arg' = [arg EXCEPT ![t] = a]
       /\ IF Check(o, a) # "PROCEED"
          THEN Leave(t, Exit(FALSE, Check(o, a), TRUE, <<>>))
          ELSE IF oom
          THEN Leave(t, Exit(FALSE, "OUT_OF_MEMORY", TRUE, <<>>))
          ELSE Goto(t, "lock") /\ UNCHANGED loc
       /\ faults' = [faults EXCEPT ![t] = [thrown |-> FALSE, oom |-> oom]]
  /\ UNCHANGED <<annots, extracted_text, aborted, page_vars, colour_vars>>

\* g_mutex_lock(&mupdf_document->mutex)
Lock(t) ==
  /\ Running(t)
  /\ pc[t] = "lock"
  /\ IF Locks(op[t]) THEN mutex = Free /\ mutex' = t ELSE mutex' = mutex
  /\ pc' = [pc EXCEPT ![t] = "locked"]
  /\ UNCHANGED <<annots, extracted_text, aborted, edits, page_vars, op, arg, loc, ret,
                 faults, colour_vars>>

\* pdf_page_from_fz_page; in pdf_page_get_annotations also the text extraction
\* and the allocation of annot_data_list (annotations.c:92-123)
FromFzPage(t) ==
  /\ Running(t)
  /\ pc[t] = "locked"
  /\ \E oom \in (IF is_pdf /\ op[t] = "pdf_page_get_annotations" THEN BOOLEAN ELSE {FALSE}) :
       /\ IF ~is_pdf THEN Leave(t, NotPdfExit(op[t]))
          ELSE IF oom THEN Leave(t, get_annotations_oom)
          ELSE Goto(t, FirstStep(op[t])) /\ UNCHANGED loc
       /\ extracted_text' = (extracted_text \/ (is_pdf /\ op[t] = "pdf_page_get_annotations"))
       /\ Meets(t, FALSE, oom)
  /\ UNCHANGED <<annots, aborted, edits, page_vars, op, arg, colour_vars>>

\* pdf_page_get_annotations, phase 1 (annotations.c:128-214)
GetAnnotationsCollect(t) ==
  /\ Running(t)
  /\ pc[t] = "collect"
  /\ \E exc \in 0..Len(annots) : \E oom \in ReadOoms(annots, {"rects", "rect", "data"}) :
       /\ exc # 0 => oom = NoOom
       /\ IF exc # 0 THEN Leave(t, get_annotations_catch)
          ELSE /\ Goto(t, "extract")
               /\ loc' = [loc EXCEPT ![t].data = CollectData(annots, page_height, oom)]
       /\ Meets(t, exc # 0, oom # NoOom)
  /\ UNCHANGED <<annots, extracted_text, aborted, edits, page_vars, op, arg, colour_vars>>

\* pdf_page_get_annotations, phase 2 (annotations.c:216-248); fz_copy_selection
\* runs outside fz_try: if it throws, MuPDF exits the process
GetAnnotationsText(t) ==
  /\ Running(t)
  /\ pc[t] = "extract"
  /\ \E oomj \in 0..Len(loc[t].data) : \E throws \in BOOLEAN :
       /\ throws => (oomj = 0 /\ Len(loc[t].data) > 0)
       /\ IF throws
          THEN aborted' = TRUE /\ UNCHANGED <<pc, ret, loc, mutex>>
          ELSE /\ Leave(t, get_annotations_done(BuildHighlights(loc[t].data, page_id, oomj)))
               /\ UNCHANGED aborted
       /\ Meets(t, throws, oomj # 0)
  /\ UNCHANGED <<annots, extracted_text, edits, page_vars, op, arg, colour_vars>>

\* the page.c pdf_page_get_annotations (page.c:425-526)
GetAnnotationsPage(t) ==
  /\ Running(t)
  /\ pc[t] = "body"
  /\ op[t] = "pdf_page_get_annotations_page"
  /\ \E exc \in 0..Len(annots) : \E oom \in ReadOoms(annots, {"rects", "rect", "highlight"}) :
       /\ exc # 0 => oom.k < exc
       /\ Leave(t, get_annotations_page_body(annots, page_id, exc, oom))
       /\ Meets(t, exc # 0, oom # NoOom)
  /\ UNCHANGED <<annots, extracted_text, aborted, edits, page_vars, op, arg, colour_vars>>

\* pdf_page_get_notes (page.c:164-199)
GetNotes(t) ==
  /\ Running(t)
  /\ pc[t] = "body"
  /\ op[t] = "pdf_page_get_notes"
  /\ \E exc \in 0..Len(annots) : \E oom \in NoteOoms(annots) :
       /\ exc # 0 => oom.k < exc
       /\ Leave(t, get_notes_body(annots, page_id, exc, oom))
       /\ Meets(t, exc # 0, oom # NoOom)
  /\ UNCHANGED <<annots, extracted_text, aborted, edits, page_vars, op, arg, colour_vars>>

\* pdf_page_export_annotations (annotations.c:309-386)
ExportAnnotations(t) ==
  /\ Running(t)
  /\ pc[t] = "body"
  /\ op[t] = "pdf_page_export_annotations"
  /\ \E exc \in ExportExcs(arg[t].list, page_id, HighlightStages(N)) :
     \E nulls \in SUBSET {j \in 1..Len(arg[t].list) : ExportQualifies(arg[t].list[j], page_id)} :
       LET b == export_annotations_body(arg[t].list, page_height, page_id, exc, nulls)
       IN  /\ exc.at # 0 => \A j \in nulls : j < exc.at
           /\ annots' = annots \o b.added
           /\ Leave(t, b.exit)
           /\ Meets(t, exc.at # 0, nulls # {})
  /\ UNCHANGED <<extracted_text, aborted, edits, page_vars, op, arg, colour_vars>>

\* pdf_page_export_notes (page.c:557-596)
ExportNotes(t) ==
  /\ Running(t)
  /\ pc[t] = "body"
  /\ op[t] = "pdf_page_export_notes"
  /\ \E exc \in NoteExcs(arg[t].list, NoteStages(N)) : \E nulls \in SUBSET (1..Len(arg[t].list)) :
       LET b == export_notes_body(arg[t].list, exc, nulls)
       IN  /\ exc.at # 0 => \A j \in nulls : j < exc.at
           /\ annots' = annots \o b.added
           /\ Leave(t, b.exit)
           /\ Meets(t, exc.at # 0, nulls # {})
  /\ UNCHANGED <<extracted_text, aborted, edits, page_vars, op, arg, colour_vars>>

\* pdf_page_delete_annotation (annotations.c:463-506)
DeleteAnnotation(t) ==
  /\ Running(t)
  /\ pc[t] = "body"
  /\ op[t] = "pdf_page_delete_annotation"
  /\ \E exc \in ScanExcs(annots, FirstMatch(annots, arg[t].list, page_height)) :
       LET b == delete_annotation_body(annots, arg[t].list, page_height, exc)
       IN  /\ annots' = b.annots
           /\ Leave(t, b.exit)
           /\ Meets(t, exc.at # 0, FALSE)
  /\ UNCHANGED <<extracted_text, aborted, edits, page_vars, op, arg, colour_vars>>

\* pdf_page_delete_note (page.c:225-248)
DeleteNote(t) ==
  /\ Running(t)
  /\ pc[t] = "body"
  /\ op[t] = "pdf_page_delete_note"
  /\ \E exc \in ScanExcs(annots, FirstNote(annots, arg[t].x, arg[t].y)) :
       LET b == delete_note_body(annots, arg[t].x, arg[t].y, exc)
       IN  /\ annots' = b.annots
           /\ Leave(t, b.exit)
           /\ Meets(t, exc.at # 0, FALSE)
  /\ UNCHANGED <<extracted_text, aborted, edits, page_vars, op, arg, colour_vars>>

\* pdf_page_update_note_content, the count before (page.c:284-298)
UpdateCountBefore(t) ==
  /\ Running(t)
  /\ pc[t] = "count_before"
  /\ \E exc \in 0..Len(annots) :
       /\ loc' = [loc EXCEPT ![t].before = CountText(annots, exc), ![t].result = "UNKNOWN"]
       /\ Meets(t, exc # 0, FALSE)
  /\ Goto(t, "update")
  /\ UNCHANGED <<annots, extracted_text, aborted, edits, page_vars, op, arg, colour_vars>>

\* pdf_page_update_note_content, the update pass (page.c:300-325)
UpdateNoteContent(t) ==
  /\ Running(t)
  /\ pc[t] = "update"
  /\ \E exc \in ScanExcs(annots, FirstNote(annots, arg[t].x, arg[t].y)) :
       LET b == update_note_content_body(annots, arg[t].x, arg[t].y, arg[t].content, exc)
       IN  /\ annots' = b.annots
           /\ loc' = [loc EXCEPT ![t].result = b.result]
           /\ Meets(t, exc.at # 0, FALSE)
  /\ Goto(t, "count_after")
  /\ UNCHANGED <<extracted_text, aborted, edits, page_vars, op, arg, colour_vars>>

\* pdf_page_update_note_content, the count after and the return (page.c:327-354)
UpdateCountAfter(t) ==
  /\ Running(t)
  /\ pc[t] = "count_after"
  /\ Leave(t, Exit(TRUE, loc[t].result, TRUE, <<>>))
  /\ UNCHANGED <<annots, extracted_text, aborted, edits, page_vars, op, arg, faults, colour_vars>>

\* the caller takes the result; the thread is free for its next call
Return(t) ==
  /\ Running(t)
  /\ pc[t] = "ret"
  /\ pc' = [pc EXCEPT ![t] = "idle"]
  /\ op' = [op EXCEPT ![t] = "none"]
  /\ arg' = [arg EXCEPT ![t] = NoArg]
  /\ ret' = [ret EXCEPT ![t] = NoResult]
  /\ faults' = [faults EXCEPT ![t] = NoFaults]
  /\ UNCHANGED <<annots, mutex, extracted_text, aborted, edits, page_vars, loc, colour_vars>>

Step(t) ==
  \/ Call(t)
  \/ Lock(t)
  \/ FromFzPage(t)
  \/ GetAnnotationsCollect(t)
  \/ GetAnnotationsText(t)
  \/ GetAnnotationsPage(t)
  \/ GetNotes(t)
  \/ ExportAnnotations(t)
  \/ ExportNotes(t)
  \/ DeleteAnnotation(t)
  \/ DeleteNote(t)
  \/ UpdateCountBefore(t)
  \/ UpdateNoteContent(t)
  \/ UpdateCountAfter(t)
  \/ Return(t)

Next == \E t \in Threads : Step(t)

Spec == Init /\ [][Next]_vars

SeqSpec == InitSeq /\ [][Next]_vars

\* ------------------------------------------------------------ colour classification
\* channel counts pdf_annot_color reports, and channel values 0.0 .. 1.0 in tenths
ChannelCounts == {0, 1, 3, 4}
Channels == 0..10

\* a fixed page, nobody calling
InitQuiet ==
  /\ active = {}
  /\ annots = <<>>
  /\ is_pdf = TRUE
  /\ page_height = F(25)
  /\ page_id = 0
  /\ InitCalls

\* either a sample to classify, or a semantic colour to write and read back
InitColour ==
  /\ InitQuiet
  /\ cout = NoClass
  /\ matched = "NONE"
  /\ \/ /\ sem = "NONE"
        /\ cin \in [n : ChannelCounts, c : [1..3 -> Channels]]
     \/ /\ sem \in Colours
        /\ cin = NoColour

\* annotations.c:362-364: the colour of a highlight is written as 3 channels
WriteColour ==
  /\ sem # "NONE"
  /\ cin = NoColour
  /\ cin' = [n |-> 3, c |-> get_color_rgb(sem)]
  /\ UNCHANGED <<annots, mutex, extracted_text, aborted, edits, page_vars,
                 pc, op, arg, loc, ret, faults, sem, cout, matched>>

\* annotations.c:188-191 and page.c:478-485: the colour of an annotation is read
Classify ==
  /\ cin # NoColour
  /\ cout = NoClass
  /\ cout' = [map_color |-> map_color(cin.n, cin.c),
              page_color |-> page_color([n |-> cin.n, color |-> cin.c])]
  /\ UNCHANGED <<annots, mutex, extracted_text, aborted, edits, page_vars,
                 pc, op, arg, loc, ret, faults, sem, cin, matched>>

NextColour == WriteColour \/ Classify

ColourSpec == InitColour /\ [][NextColour]_vars

\* ------------------------------------------------------------ geometry matching
\* how far a coordinate of a target rectangle lies from the stored one: around
\* eps on both sides
Offsets == {-(Eps + 1), -Eps, -(Eps - 1), 0, Eps - 1, Eps, Eps + 1}

\* the rectangle r with one coordinate moved by d
Moved(r, k, d) ==
  CASE k = 1 -> [r EXCEPT !.x1 = @ + d]
    [] k = 2 -> [r EXCEPT !.y1 = @ + d]
    [] k = 3 -> [r EXCEPT !.x2 = @ + d]
    [] OTHER -> [r EXCEPT !.y2 = @ + d]

\* target rectangles: those of QuadA and QuadB seen from the page, one
\* coordinate moved
TargetRects(ph) ==
  {Moved(QuadToRect(q, ph), k, d) : q \in {QuadA, QuadB}, k \in 1..4, d \in Offsets}

\* target lists of up to two rectangles
TargetLists(ph) ==
  {<<>>} \cup {<<r>> : r \in TargetRects(ph)}
         \cup {<<r1, r2>> : r1 \in TargetRects(ph),
                             r2 \in {QuadToRect(QuadA, ph), QuadToRect(QuadB, ph)}}
         \cup {<<r1, r2>> : r1 \in {QuadToRect(QuadA, ph), QuadToRect(QuadB, ph)},
                             r2 \in TargetRects(ph)}

\* one markup annotation on the page and a target list for it
InitMatch ==
  /\ active = {}
  /\ annots \in {<<AnnotHighlight>>, <<AnnotUnderline>>, <<AnnotStrikeOut>>}
  /\ is_pdf = TRUE
  /\ page_height \in PageHeights(1) \cup PageHeights(2)
  /\ page_id = 0
  /\ mutex = Free
  /\ extracted_text = FALSE
  /\ aborted = FALSE
  /\ edits = 0
  /\ pc = Idle
  /\ op = [t \in Threads |-> "none"]
  /\ \E l \in TargetLists(page_height) :
       arg = [t \in Threads |-> IF t = "t1" THEN Arg(FALSE, l, 0, 0, NullStr) ELSE NoArg]
  /\ loc = [t \in Threads |-> NoLoc]
  /\ ret = [t \in Threads |-> NoResult]
  /\ faults = [t \in Threads |-> NoFaults]
  /\ sem = "NONE"
  /\ cin = NoColour
  /\ cout = NoClass
  /\ matched = "NONE"

\* annotations.c:476: annot_geometry_matches(ctx, annot, rects, page_height)
Match ==
  /\ matched = "NONE"
  /\ matched' = IF annot_geometry_matches(annots[1], arg["t1"].list, page_height)
                 THEN "YES" ELSE "NO"
  /\ UNCHANGED <<annots, mutex, extracted_text, aborted, edits, page_vars,
                 pc, op, arg, loc, ret, faults, sem, cin, cout>>

NextMatch == Match

MatchSpec == InitMatch /\ [][NextMatch]_vars

\* ------------------------------------------------------------ export, then delete
\* a rectangle whose corners are given right to left and bottom to top
RectUnnormalized(ph) == Rect(F(6), ph - F(20), F(2), ph - F(22))

\* the highlight a caller exports and then deletes by its rectangles
PairHighlights(ph) ==
  {Highlight(0, <<RectA(ph)>>, "YELLOW", ""),
   Highlight(0, <<RectB(ph), QuadToRect(QuadB, ph)>>, "BLUE", "t"),
   Highlight(0, <<RectB(ph)>>, "RED", NullStr),
   Highlight(0, <<RectUnnormalized(ph)>>, "GREEN", "")}

\* one caller, inside pdf_page_export_annotations with a list of one highlight
InitPair ==
  /\ active = {"t1"}
  /\ annots \in {p \in InitPages(1) : Len(p) < MaxAnnots}
  /\ is_pdf = TRUE
  /\ page_height \in PageHeights(1) \cup PageHeights(2)
  /\ page_id = 0
  /\ mutex = "t1"
  /\ extracted_text = FALSE
  /\ aborted = FALSE
  /\ edits = 0
  /\ pc = [t \in Threads |-> IF t = "t1" THEN "body" ELSE "idle"]
  /\ op = [t \in Threads |-> IF t = "t1" THEN "pdf_page_export_annotations" ELSE "none"]
  /\ \E h \in PairHighlights(page_height) :
       arg = [t \in Threads |-> IF t = "t1" THEN Arg(FALSE, <<h>>, 0, 0, NullStr) ELSE NoArg]
  /\ loc = [t \in Threads |-> NoLoc]
  /\ ret = [t \in Threads |-> NoResult]
  /\ faults = [t \in Threads |-> NoFaults]
  /\ sem = "NONE"
  /\ cin = NoColour
  /\ cout = NoClass
  /\ matched = "NONE"

\* the caller goes on from the export to pdf_page_delete_annotation, with the
\* rectangles of the highlight it exported or with an empty list, up to the scan
\* (annotations.c:428-458 pass: the pointers are there and the page is a PDF page)
CallDelete(t) ==
  /\ Running(t)
  /\ pc[t] = "ret"
  /\ op[t] = "pdf_page_export_annotations"
  /\ \E rects \in {arg[t].list[1].rects, <<>>} :
       arg' = [arg EXCEPT ![t] = Arg(FALSE, rects, 0, 0, NullStr)]
  /\ op' = [op EXCEPT ![t] = "pdf_page_delete_annotation"]
  /\ pc' = [pc EXCEPT ![t] = "body"]
  /\ mutex' = t
  /\ ret' = [ret EXCEPT ![t] = NoResult]
  /\ UNCHANGED <<annots, extracted_text, aborted, edits, page_vars, loc, faults, colour_vars>>

NextPair ==
  \/ ExportAnnotations("t1")
  \/ CallDelete("t1")
  \/ DeleteAnnotation("t1")

PairSpec == InitPair /\ [][NextPair]_vars


\* ------------------------------------------------------------ the document mutex
\* where a thread is between g_mutex_lock and g_mutex_unlock
Critical == {"locked", "collect", "extract", "body", "count_before", "update", "count_after"}

\* where a thread is outside every function, or has just returned from one
Outside == {"idle", "ret"}

\* C1: a public annotation operation that returns leaves the document mutex
\* unlocked, whatever its exit path (success, not a PDF page, allocation failure
\* after locking, caught native failure): a thread that is not inside a call
\* never holds the mutex, and when no call is in progress the mutex is free.
C1_LockReleasedOnReturn ==
  /\ \A t \in Threads : pc[t] \in Outside => mutex # t
  /\ (\A t \in Threads : pc[t] \in Outside) => mutex = Free

\* a read of the highlights has caught a native failure and returned, and the
\* mutex is free again
C1_Witness ==
  \E t \in Threads :
    /\ pc[t] = "ret"
    /\ op[t] = "pdf_page_get_annotations"
    /\ faults[t].thrown
    /\ ret[t].status = "UNKNOWN"
    /\ mutex = Free

\* C2: with several threads calling, at most one operation is between its lock
\* and its unlock, and every step that traverses or changes the annotation list
\* of the page (the text selection pass of the highlight reader and the counting
\* passes of the note update included) is taken by the thread holding the mutex.
C2_MutualExclusion ==
  /\ \A t \in Threads : pc[t] \in Critical => mutex = t
  /\ Cardinality({t \in Threads : pc[t] \in Critical}) <= 1

\* one thread is in the text selection pass of the highlight reader while the
\* other waits for the mutex
C2_Witness ==
  \E t, u \in Threads :
    /\ t # u
    /\ pc[t] = "extract"
    /\ mutex = t
    /\ pc[u] = "lock"

\* ------------------------------------------------------------ argument validation
\* a required input of a call of o is NULL: the page, the page data, the native
\* page handle, the document, the list of rectangles or highlights, the content
MissingRequired(o, a) ==
  \/ ~a.page
  \/ ~a.data
  \/ ~a.npage
  \/ ~a.document
  \/ (o \in {"pdf_page_export_annotations", "pdf_page_delete_annotation"} /\ a.list_null)
  \/ (o = "pdf_page_update_note_content" /\ a.content = NullStr)

\* a call of pdf_page_export_notes that has nothing to export
NothingToExport(o, a) ==
  /\ o = "pdf_page_export_notes"
  /\ a.data
  /\ a.npage
  /\ (a.list_null \/ Len(a.list) = 0)

\* thread t is called in this step
Called(t) == pc[t] = "idle" /\ pc'[t] # "idle"

\* the call of thread t returns status st at once: the mutex is not taken and
\* the annotation list of the page is left as it is
Rejected(t, st) ==
  /\ pc'[t] = "ret"
  /\ ret'[t].status = st
  /\ ret'[t].null
  /\ mutex' = mutex
  /\ annots' = annots

\* C3 (as stated): a call with a required input NULL returns InvalidArguments
\* without taking the mutex and without changing the annotation list.
C3_AsStated ==
  [][\A t \in Threads :
       (Called(t) /\ MissingRequired(op'[t], arg'[t])) => Rejected(t, "INVALID_ARGUMENTS")]_vars

\* C3 (amended): a call with a required input NULL returns without taking the
\* mutex and without changing the annotation list; its status is
\* InvalidArguments, except that pdf_page_export_notes, given the page data and
\* the native page handle, returns Ok for a NULL or empty list of notes before it
\* looks at the document.
C3_RejectedBeforeLock ==
  [][\A t \in Threads :
       (Called(t) /\ MissingRequired(op'[t], arg'[t])) =>
         IF NothingToExport(op'[t], arg'[t])
         THEN Rejected(t, "OK")
         ELSE Rejected(t, "INVALID_ARGUMENTS")]_vars

\* a note update called without content has returned InvalidArguments, and the
\* mutex is free
C3_Witness ==
  \E t \in Threads :
    /\ pc[t] = "ret"
    /\ op[t] = "pdf_page_update_note_content"
    /\ arg[t].content = NullStr
    /\ ret[t].status = "INVALID_ARGUMENTS"
    /\ mutex = Free

\* ------------------------------------------------------------ reading highlights
\* thread t has returned from a call of o that passed its checks on a PDF page
Returned(t, o) ==
  /\ pc[t] = "ret"
  /\ op[t] = o
  /\ Check(o, arg[t]) = "PROCEED"
  /\ is_pdf

\* the annotations of the page a read has to report, in native order
Qualifying(as) ==
  SelectSeq(Idx(Len(as)), LAMBDA k : as[k].type \in Markup /\ Len(as[k].quads) >= 1)

\* C4 (as stated): when the native library fails while the annotations are
\* read, the read returns no list and reports Unknown, never Ok with the
\* highlights built so far; stated for both readers of the source.
C4_AsStated ==
  \A t \in Threads :
    \A o \in {"pdf_page_get_annotations", "pdf_page_get_annotations_page"} :
      (Returned(t, o) /\ faults[t].thrown) =>
        (ret[t].null /\ ret[t].status = "UNKNOWN")

\* C5 (as stated): on a page that is not a PDF page every operation whose
\* arguments are valid reports Unknown.
C5_AsStated ==
  \A t \in Threads :
    (pc[t] = "ret" /\ ~is_pdf /\ Check(op[t], arg[t]) = "PROCEED" /\ ~faults[t].oom)
      => ret[t].status = "UNKNOWN"

\* the list l holds one highlight per qualifying annotation of as, in native
\* order, each with one rectangle per quad, in quad order
OnePerQualifying(l, as) ==
  LET q == Qualifying(as)
  IN  /\ Len(l) = Len(q)
      /\ \A j \in 1..Len(q) :
           /\ j <= Len(l)
           /\ Len(l[j].rects) = Len(as[q[j]].quads)
           /\ \A i \in 1..Len(as[q[j]].quads) :
                LET c == as[q[j]].quads[i]
                IN  /\ i <= Len(l[j].rects)
                    /\ l[j].rects[i].x1 = Min4(c.ul.x, c.ur.x, c.ll.x, c.lr.x)
                    /\ l[j].rects[i].x2 = Max4(c.ul.x, c.ur.x, c.ll.x, c.lr.x)

FlippedBox(r, c, ph) ==
  /\ r.x1 = Min4(c.ul.x, c.ur.x, c.ll.x, c.lr.x)
  /\ r.x2 = Max4(c.ul.x, c.ur.x, c.ll.x, c.lr.x)
  /\ r.y1 = ph - Max4(c.ul.y, c.ur.y, c.ll.y, c.lr.y)
  /\ r.y2 = ph - Min4(c.ul.y, c.ur.y, c.ll.y, c.lr.y)
  /\ r.x1 <= r.x2
  /\ r.y1 <= r.y2

\* C7 (as stated): every rectangle a read returns for a quad is the Y-flipped
\* bounding box of the quad; stated for both readers of the source.
C7_AsStated ==
  \A t \in Threads :
    \A o \in {"pdf_page_get_annotations", "pdf_page_get_annotations_page"} :
      (Returned(t, o) /\ ~faults[t].thrown /\ ~faults[t].oom /\ ~ret[t].null) =>
        LET q == Qualifying(annots)
        IN  \A j \in 1..Len(ret[t].list) : \A i \in 1..Len(ret[t].list[j].rects) :
              FlippedBox(ret[t].list[j].rects[i], annots[q[j]].quads[i], page_height)

\* ------------------------------------------------------------ export, then read
\* what pdf_page_get_annotations returns for the list as when nothing fails
ReadBack(as) == BuildHighlights(CollectData(as, page_height, NoOom), page_id, 0)

\* the highlights of a list that an export to this page writes
Exported(l) == SelectSeq(l, LAMBDA h : ExportQualifies(h, page_id))

Normalized(h) == \A i \in 1..Len(h.rects) : h.rects[i].x1 <= h.rects[i].x2 /\ h.rects[i].y1 <= h.rects[i].y2

\* thread t exports its list in this step: every highlight for this page, all
\* of them normalized, gets its annotation
ExportsAll(t) ==
  /\ pc[t] = "body"
  /\ op[t] = "pdf_page_export_annotations"
  /\ pc'[t] = "ret"
  /\ ret'[t].status = "OK"
  /\ ret'[t].exported = Len(Exported(arg[t].list))
  /\ \A j \in 1..Len(arg[t].list) : Normalized(arg[t].list[j])

\* a double and what it becomes when stored as a float and read back
Near(a, b) == 2 * Abs(a - b) <= FloatStep
Representable(a) == a % FloatStep = 0

\* the rectangle g read back for the exported rectangle r
ReadBackNear(g, r) ==
  /\ Near(g.x1, r.x1)
  /\ Near(g.y1, r.y1)
  /\ Near(g.x2, r.x2)
  /\ Near(g.y2, r.y2)
  /\ (/\ Representable(r.x1)
      /\ Representable(r.x2)
      /\ Representable(page_height - r.y1)
      /\ Representable(page_height - r.y2)) => g = r

\* C8 (as stated): a highlight exported and read back has the same number of
\* rectangles, each equal to the original one, and the same colour.
C8_AsStated ==
  [][\A t \in Threads :
       ExportsAll(t) =>
         LET ex == Exported(arg[t].list)
             before == ReadBack(annots)
             after == ReadBack(annots')
         IN  /\ Len(after) = Len(before) + Len(ex)
             /\ \A j \in 1..Len(ex) :
                  LET g == after[Len(before) + j]
                  IN  /\ Len(g.rects) = Len(ex[j].rects)
                      /\ g.color = ex[j].color
                      /\ \A i \in 1..Len(ex[j].rects) : g.rects[i] = ex[j].rects[i]]_vars

\* C8 (amended): a highlight exported and read back has the same number of
\* rectangles, each within the rounding of one double to float conversion of the
\* original one (equal to it when its X coordinates and its Y coordinates taken
\* from the page height are floats), and the same colour.
C8_RoundTrip ==
  [][\A t \in Threads :
       ExportsAll(t) =>
         LET ex == Exported(arg[t].list)
             before == ReadBack(annots)
             after == ReadBack(annots')
         IN  /\ Len(after) = Len(before) + Len(ex)
             /\ \A j \in 1..Len(ex) :
                  LET g == after[Len(before) + j]
                  IN  /\ Len(g.rects) = Len(ex[j].rects)
                      /\ g.color = ex[j].color
                      /\ \A i \in 1..Len(ex[j].rects) :
                           ReadBackNear(g.rects[i], ex[j].rects[i])]_vars

\* a highlight of two rectangles, one of them off the float grid, has been
\* exported and the page reads back with two rectangles in its last highlight
C8_Witness ==
  \E t \in Threads :
    /\ pc[t] = "ret"
    /\ op[t] = "pdf_page_export_annotations"
    /\ ret[t].status = "OK"
    /\ ret[t].exported = 1
    /\ Len(arg[t].list) = 1
    /\ Len(arg[t].list[1].rects) = 2
    /\ ~Representable(arg[t].list[1].rects[1].x1)
    /\ Len(ReadBack(annots)) >= 1
    /\ Len(ReadBack(annots)[Len(ReadBack(annots))].rects) = 2

\* ------------------------------------------------------------ classifying colours
\* the rules of map_color on the channels c, in tenths
HighRedGreenLowBlue(c) == c[1] > 7 /\ c[2] > 7 /\ c[3] < 5
GreenDominant(c) == c[2] > 6 /\ c[2] > c[1] /\ c[2] > c[3]
BlueDominant(c) == c[3] > 5 /\ c[3] > c[1] /\ c[3] > c[2]
BlueAboveRed(c) == c[3] > 5 /\ c[3] > c[1]
RedDominant(c) == c[1] > 6 /\ c[1] > c[2] /\ c[1] > c[3]

\* C9 (as stated): map_color gives YELLOW for fewer than 3 channels, else the
\* colour of the first rule that applies: high red, high green, low blue:
\* YELLOW; green above its threshold and dominant: GREEN; blue above its
\* threshold and greater than red and green: BLUE; red dominant: RED; else YELLOW.
C9_AsStated ==
  cout # NoClass =>
    LET c == cin.c
        k == cout.map_color
    IN  /\ k \in Colours
        /\ cin.n < 3 => k = "YELLOW"
        /\ cin.n >= 3 =>
             /\ k = "GREEN" <=> (~HighRedGreenLowBlue(c) /\ GreenDominant(c))
             /\ k = "BLUE" <=> (~HighRedGreenLowBlue(c) /\ ~GreenDominant(c) /\ BlueDominant(c))
             /\ k = "RED" <=> (/\ ~HighRedGreenLowBlue(c)
                               /\ ~GreenDominant(c)
                               /\ ~BlueDominant(c)
                               /\ RedDominant(c))

\* C9 (amended): both classifiers return one of the four colours, and YELLOW
\* for fewer than 3 channels.  map_color gives the colour of the first rule
\* that applies: red and green above 0.7 and blue below 0.5: YELLOW; green above
\* 0.6 and greater than red and blue: GREEN; blue above 0.5 and greater than
\* red (whatever green is): BLUE; red above 0.6 and greater than green and
\* blue: RED; else YELLOW.  map_pdf_color_to_highlight gives GREEN only for
\* green above 0.7 and dominant, BLUE only for blue at least 0.6 and greater
\* than red, RED only for red above 0.7 and dominant.
C9_OrderedRules ==
  cout # NoClass =>
    LET c == cin.c
        k == cout.map_color
        p == cout.page_color
    IN  /\ k \in Colours
        /\ p \in Colours
        /\ cin.n < 3 => (k = "YELLOW" /\ p = "YELLOW")
        /\ cin.n >= 3 =>
             /\ k = "GREEN" <=> (~HighRedGreenLowBlue(c) /\ GreenDominant(c))
             /\ k = "BLUE" <=> (~HighRedGreenLowBlue(c) /\ ~GreenDominant(c) /\ BlueAboveRed(c))
             /\ k = "RED" <=> (/\ ~HighRedGreenLowBlue(c)
                               /\ ~GreenDominant(c)
                               /\ ~BlueAboveRed(c)
                               /\ RedDominant(c))
             /\ p = "GREEN" => (c[2] > 7 /\ c[2] > c[1] /\ c[2] > c[3])
             /\ p = "BLUE" => (c[3] >= 6 /\ c[3] > c[1])
             /\ p = "RED" => (c[1] > 7 /\ c[1] > c[2] /\ c[1] > c[3])

\* a colour with blue equal to green, 0.6 both, has been classified BLUE
C9_Witness ==
  /\ cin.n = 3
  /\ cin.c = <<0, 6, 6>>
  /\ cout.map_color = "BLUE"

\* C10: the four semantic colours are written as four different RGB triples,
\* and each triple is classified as the colour it was written for, by map_color
\* and by map_pdf_color_to_highlight.
C10_InverseConsistency ==
  /\ (sem # "NONE" /\ cin # NoColour) =>
       \A other \in Colours \ {sem} : get_color_rgb(other) # cin.c
  /\ (sem # "NONE" /\ cout # NoClass) =>
       (cout.map_color = sem /\ cout.page_color = sem)

\* BLUE has been written as RGB and classified as BLUE by both classifiers
C10_Witness ==
  /\ sem = "BLUE"
  /\ cin.n = 3
  /\ cout.map_color = "BLUE"
  /\ cout.page_color = "BLUE"

\* ------------------------------------------------------------ matching by value
\* the largest distance, over the four coordinates, between the rectangle r
\* and the bounding box of the quad c seen from a page of height ph
Distance(r, c, ph) ==
  Max4(Abs(r.x1 - Min4(c.ul.x, c.ur.x, c.ll.x, c.lr.x)),
       Abs(r.x2 - Max4(c.ul.x, c.ur.x, c.ll.x, c.lr.x)),
       Abs(r.y1 - (ph - Max4(c.ul.y, c.ur.y, c.ll.y, c.lr.y))),
       Abs(r.y2 - (ph - Min4(c.ul.y, c.ur.y, c.ll.y, c.lr.y))))

\* C11: a list of target rectangles matches a markup annotation exactly when
\* the annotation has as many quads as the list has rectangles and, position
\* by position, every coordinate of the rectangle is less than 1.0 away from
\* the bounding box of the quad in host coordinates; a coordinate 1.0 or more
\* away, another count, or the rectangles in another order do not match.
C11_ToleranceCorrect ==
  matched # "NONE" =>
    LET quads == annots[1].quads
        rects == arg["t1"].list
    IN  /\ matched = "YES" <=>
             /\ Len(rects) = Len(quads)
             /\ \A i \in 1..Len(quads) :
                  i <= Len(rects) /\ Distance(rects[i], quads[i], page_height) < Eps
        /\ Len(rects) # Len(quads) => matched = "NO"
        /\ (\E i \in 1..Min2(Len(rects), Len(quads)) :
              Distance(rects[i], quads[i], page_height) >= Eps) => matched = "NO"

\* a list of two rectangles, the first exactly 1.0 away from the first quad
\* of the annotation in one coordinate, the second on its quad: no match
C11_Witness ==
  /\ matched = "NO"
  /\ Len(annots[1].quads) = 2
  /\ Len(arg["t1"].list) = 2
  /\ Distance(arg["t1"].list[1], annots[1].quads[1], page_height) = Eps
  /\ Distance(arg["t1"].list[2], annots[1].quads[2], page_height) = 0


\* ------------------------------------------------------------ C12
\* thread t makes the step in which function o scans the page and returns
Scans(t, o) == pc[t] \in {"body", "update"} /\ op[t] = o /\ pc'[t] # pc[t]

\* the annotations of `as` that are markup and lie, rectangle by rectangle,
\* less than eps from the target list
MatchingMarkup(as, rects, ph) ==
  {k \in 1..Len(as) :
     /\ as[k].type \in Markup
     /\ Len(as[k].quads) = Len(rects)
     /\ \A i \in 1..Len(rects) : Distance(rects[i], as[k].quads[i], ph) < Eps}

\* C12 as stated: deleting a highlight by value removes the first matching
\* markup annotation and returns Ok, every other annotation staying in order;
\* when no markup annotation matches it returns Unknown and removes nothing.
C12_AsStated ==
  [][\A t \in Threads :
       Scans(t, "pdf_page_delete_annotation") =>
         LET M == MatchingMarkup(annots, arg[t].list, page_height)
         IN  /\ M # {} => /\ annots' = RemoveAt(annots, SetMin(M))
                          /\ ret'[t].status = "OK"
             /\ M = {} => /\ annots' = annots
                          /\ ret'[t].status = "UNKNOWN"]_vars

\* C12, amended: the delete removes at most one annotation, and only the
\* first matching markup annotation; when no native failure occurs it removes
\* that one and returns Ok if there is a match, and returns Unknown with the
\* list unchanged if there is none; after a native failure it returns Unknown.
C12_RemovesFirstMatch ==
  [][\A t \in Threads :
       Scans(t, "pdf_page_delete_annotation") =>
         LET M == MatchingMarkup(annots, arg[t].list, page_height)
         IN  /\ \/ annots' = annots
                \/ M # {} /\ annots' = RemoveAt(annots, SetMin(M))
             /\ ~faults'[t].thrown =>
                  /\ M # {} => /\ annots' = RemoveAt(annots, SetMin(M))
                               /\ ret'[t].status = "OK"
                  /\ M = {} => /\ annots' = annots
                               /\ ret'[t].status = "UNKNOWN"
             /\ faults'[t].thrown => ret'[t].status = "UNKNOWN"]_vars

\* the delete returned Ok on the page with two matching markup annotations,
\* the first of them gone
C12_Witness ==
  \E t \in Threads :
    /\ pc[t] = "ret"
    /\ op[t] = "pdf_page_delete_annotation"
    /\ ret[t].status = "OK"
    /\ ~faults[t].thrown
    /\ annots = <<AnnotText, AnnotHighlight>>


\* ------------------------------------------------------------ C13
\* the TEXT annotations of `as` whose native rectangle origin lies less than
\* eps from (x, y) in both coordinates, no Y flip applied
NotesNear(as, x, y) ==
  {k \in 1..Len(as) :
     /\ as[k].type = "TEXT"
     /\ Abs(as[k].rect.x0 - x) < Eps
     /\ Abs(as[k].rect.y0 - y) < Eps}

\* the page whose only note lies at F(13), F(13), and the two points of the
\* scenario: 0.4 and 1.6 away from it in both coordinates
OneNotePage == <<AnnotHighlight, AnnotText>>
PointWithin == <<F(13) - FloatStep, F(13) - FloatStep>>
PointBeyond == <<F(13) + Eps + FloatStep + 2, F(13) + Eps + FloatStep + 2>>

\* C13 as stated: deleting a note at (x, y) removes the first TEXT annotation
\* whose native origin is less than 1.0 away in both coordinates and returns
\* Ok, removing nothing else; when no note matches it returns Unknown and the
\* list is unchanged.
C13_AsStated ==
  [][\A t \in Threads :
       Scans(t, "pdf_page_delete_note") =>
         LET M == NotesNear(annots, arg[t].x, arg[t].y)
         IN  /\ M # {} => /\ annots' = RemoveAt(annots, SetMin(M))
                          /\ ret'[t].status = "OK"
             /\ M = {} => /\ annots' = annots
                          /\ ret'[t].status = "UNKNOWN"]_vars

\* C13, amended: the delete removes at most one annotation, only the first
\* TEXT annotation within eps of (x, y) and never a markup annotation; when
\* no native failure occurs it removes that note and returns Ok if there is
\* one, and returns Unknown with the list unchanged if there is none; after a
\* native failure it returns Unknown. On the page whose only note is 0.4
\* away the delete succeeds, 1.6 away it does not find the note.
C13_RemovesFirstNote ==
  [][\A t \in Threads :
       Scans(t, "pdf_page_delete_note") =>
         LET M == NotesNear(annots, arg[t].x, arg[t].y)
         IN  /\ \/ annots' = annots
                \/ /\ M # {}
                   /\ annots[SetMin(M)].type = "TEXT"
                   /\ annots' = RemoveAt(annots, SetMin(M))
             /\ ~faults'[t].thrown =>
                  /\ M # {} => /\ annots' = RemoveAt(annots, SetMin(M))
                               /\ ret'[t].status = "OK"
                  /\ M = {} => /\ annots' = annots
                               /\ ret'[t].status = "UNKNOWN"
                  /\ (annots = OneNotePage /\ <<arg[t].x, arg[t].y>> = PointWithin)
                       => annots' = <<AnnotHighlight>> /\ ret'[t].status = "OK"
                  /\ (annots = OneNotePage /\ <<arg[t].x, arg[t].y>> = PointBeyond)
                       => annots' = annots /\ ret'[t].status = "UNKNOWN"
             /\ faults'[t].thrown => ret'[t].status = "UNKNOWN"]_vars

\* the note 0.4 away from the point was deleted, the highlight stayed
C13_Witness ==
  \E t \in Threads :
    /\ pc[t] = "ret"
    /\ op[t] = "pdf_page_delete_note"
    /\ <<arg[t].x, arg[t].y>> = PointWithin
    /\ ret[t].status = "OK"
    /\ annots = <<AnnotHighlight>>


\* ------------------------------------------------------------ C14
\* thread t makes the step in which export o writes its list and returns
Exports(t, o) == pc[t] = "body" /\ op[t] = o /\ pc'[t] = "ret"

\* the call of thread t has met no native failure in this step: nothing was
\* thrown and pdf_create_annot gave an annotation each time
NoNativeFailure(t) == ~faults'[t].thrown /\ ~faults'[t].oom

\* the highlights of list l for page pid that have a rectangle, in list order
OnPageWithRects(l, pid) ==
  SelectSeq(Idx(Len(l)), LAMBDA j :
    l[j].page = pid /\ ~l[j].rects_null /\ Len(l[j].rects) >= 1)

\* annotation a is the HIGHLIGHT written for highlight h: one quad per
\* rectangle, in order, each the rectangle flipped to native space and stored
\* as floats, and the colour of h's entry in the inverse colour table
WrittenFor(a, h, ph) ==
  /\ a.type = "HIGHLIGHT"
  /\ Len(a.quads) = Len(h.rects)
  /\ \A i \in 1..Len(h.rects) :
       i <= Len(a.quads) /\ 2 * Distance(h.rects[i], a.quads[i], ph) <= FloatStep
  /\ a.n = 3
  /\ a.color = get_color_rgb(h.color)
  /\ map_color(a.n, a.color) = h.color

\* C14: when no native failure occurs, pdf_page_export_annotations appends
\* exactly one HIGHLIGHT annotation for each highlight of the list that is on
\* the target page and has at least one rectangle, with one quad per rectangle
\* in order and the colour of the inverse table; a highlight with no rectangle
\* list or an empty one is skipped and not counted; the number added equals the
\* exported count and the number of such highlights, the status is Ok, and the
\* annotations that were on the page stay as they were.
C14_OnePerHighlight ==
  [][\A t \in Threads :
       (Exports(t, "pdf_page_export_annotations") /\ NoNativeFailure(t)) =>
         LET q == OnPageWithRects(arg[t].list, page_id)
         IN  /\ Len(annots') = Len(annots) + Len(q)
             /\ SubSeq(annots', 1, Len(annots)) = annots
             /\ \A m \in 1..Len(q) :
                  WrittenFor(annots'[Len(annots) + m], arg[t].list[q[m]], page_height)
             /\ ret'[t].exported = Len(q)
             /\ ret'[t].status = "OK"]_vars

\* a list of three highlights, one without rectangles and one of another page,
\* has been exported without a failure: one annotation added and counted
C14_Witness ==
  \E t \in Threads :
    /\ pc[t] = "ret"
    /\ op[t] = "pdf_page_export_annotations"
    /\ ~faults[t].thrown
    /\ ~faults[t].oom
    /\ Len(arg[t].list) = 3
    /\ ret[t].exported = 1
    /\ ret[t].status = "OK"
    /\ Len(annots) >= 1
    /\ annots[Len(annots)].type = "HIGHLIGHT"
    /\ annots[Len(annots)].color = <<10, 0, 0>>


\* ------------------------------------------------------------ C15
\* the items of list l that belong to page pid
OnPage(l, pid) == SelectSeq(Idx(Len(l)), LAMBDA j : l[j].page = pid)

\* C15 (as stated): both exports filter their list to the target page index:
\* an export without a native failure writes no annotation for an item of
\* another page, so the page grows by at most the items of the target page.
C15_AsStated ==
  [][\A t \in Threads : \A o \in ExportOps :
       (Exports(t, o) /\ NoNativeFailure(t)) =>
         Len(annots') - Len(annots) <= Len(OnPage(arg[t].list, page_id))]_vars


\* ------------------------------------------------------------ C16
\* the items of its list that export o has to write on page pid
ToWrite(o, l, pid) ==
  IF o = "pdf_page_export_annotations" THEN OnPageWithRects(l, pid) ELSE OnPage(l, pid)

\* C16 (as stated): a failure raised for one item of an export does not abort
\* the batch: when one item has thrown (and pdf_create_annot gave an
\* annotation for every other), every other item to write still has its
\* annotation on the page, so the page grows by at least the items to write
\* less one.
C16_AsStated ==
  [][\A t \in Threads : \A o \in ExportOps :
       (Exports(t, o) /\ faults'[t].thrown /\ ~faults'[t].oom) =>
         Len(annots') - Len(annots) >= Len(ToWrite(o, arg[t].list, page_id)) - 1]_vars


\* ------------------------------------------------------------ C17
\* the TEXT annotations among the first k of `as`, in native order
TextUpTo(as, k) == SelectSeq(Idx(k), LAMBDA j : as[j].type = "TEXT")

\* list l holds one note for each TEXT annotation among the first k of `as`,
\* in order: at the origin of its native rectangle, not flipped, with its
\* contents, an annotation without contents giving a note without content
NotesOf(l, as, k) ==
  LET q == TextUpTo(as, k)
  IN  /\ Len(l) = Len(q)
      /\ \A j \in 1..Len(q) :
           /\ j <= Len(l)
           /\ l[j].x = as[q[j]].rect.x0
           /\ l[j].y = as[q[j]].rect.y0
           /\ l[j].content = as[q[j]].contents
           /\ ~HasText(as[q[j]].contents) => ~HasText(l[j].content)

\* C17 as stated: pdf_page_get_notes returns Ok and one note for each TEXT
\* annotation, none for another kind, in native order, at the native origin
\* and with the native contents; after a native failure in the middle of the
\* iteration it returns Ok and the notes of the annotations before the failure.
C17_AsStated ==
  [][\A t \in Threads :
       Scans(t, "pdf_page_get_notes") =>
         /\ ret'[t].status = "OK"
         /\ ~ret'[t].null
         /\ ~faults'[t].thrown => NotesOf(ret'[t].list, annots, Len(annots))
         /\ faults'[t].thrown =>
              \E k \in 0..(Len(annots) - 1) : NotesOf(ret'[t].list, annots, k)]_vars

\* C17, amended: the same when no allocation of a note fails; in every case
\* the status is Ok and the list holds at most one note per TEXT annotation.
C17_OnePerText ==
  [][\A t \in Threads :
       Scans(t, "pdf_page_get_notes") =>
         /\ ret'[t].status = "OK"
         /\ ~ret'[t].null
         /\ Len(ret'[t].list) <= Len(TextUpTo(annots, Len(annots)))
         /\ (~faults'[t].oom /\ ~faults'[t].thrown) =>
              NotesOf(ret'[t].list, annots, Len(annots))
         /\ (~faults'[t].oom /\ faults'[t].thrown) =>
              \E k \in 0..(Len(annots) - 1) : NotesOf(ret'[t].list, annots, k)]_vars

\* a page with two notes, the first without contents, was read until the
\* native library failed at the last annotation: one note, with status Ok
C17_Witness ==
  \E t \in Threads :
    /\ pc[t] = "ret"
    /\ op[t] = "pdf_page_get_notes"
    /\ faults[t].thrown
    /\ ~faults[t].oom
    /\ annots = <<AnnotHighlight, AnnotTextNear, AnnotText>>
    /\ ret[t].status = "OK"
    /\ Len(ret[t].list) = 1
    /\ ret[t].list[1].x = F(14)
    /\ ~HasText(ret[t].list[1].content)


\* ------------------------------------------------------------ C18
\* list bs is list as with nothing added or removed and every kind, position
\* and geometry as it was; only the contents of annotation `only` may differ
\* (only = 0: no contents may differ)
SameButContents(as, bs, only) ==
  /\ Len(bs) = Len(as)
  /\ \A k \in 1..Len(as) :
       /\ k <= Len(bs)
       /\ bs[k].type = as[k].type
       /\ bs[k].rect = as[k].rect
       /\ bs[k].quads = as[k].quads
       /\ k # only => bs[k] = as[k]
  /\ Len(TextUpTo(bs, Len(bs))) = Len(TextUpTo(as, Len(as)))

\* thread t returns from pdf_page_update_note_content with the result of its
\* update pass, the page as the pass left it
UpdateReturns(t) ==
  (pc[t] = "count_after" /\ pc'[t] = "ret") =>
    ret'[t].status = loc[t].result /\ annots' = annots

\* C18 as stated: updating a note's content at (x, y) adds and removes nothing
\* and changes no kind or position; when a TEXT annotation lies within 1.0 of
\* (x, y), the first one gets the new content and the call returns Ok; when
\* none does, the call returns Unknown and no content changes.
C18_AsStated ==
  [][\A t \in Threads :
       /\ UpdateReturns(t)
       /\ Scans(t, "pdf_page_update_note_content") =>
            LET M == NotesNear(annots, arg[t].x, arg[t].y)
            IN  /\ M # {} => /\ SameButContents(annots, annots', SetMin(M))
                             /\ annots'[SetMin(M)].contents = arg[t].content
                             /\ loc'[t].result = "OK"
                /\ M = {} => /\ annots' = annots
                             /\ loc'[t].result = "UNKNOWN"]_vars

\* C18, amended: the update adds and removes nothing, changes no kind or
\* position and no contents but those of the first TEXT annotation within 1.0
\* of (x, y); when no native failure occurs during the call that annotation
\* gets the new content and the call returns Ok; whenever the call returns Ok
\* it has the new content; when none is in range, or after a native failure
\* in the update pass, the call returns Unknown; with none in range no
\* content changes.
C18_UpdatesFirstNote ==
  [][\A t \in Threads :
       /\ UpdateReturns(t)
       /\ Scans(t, "pdf_page_update_note_content") =>
            LET M == NotesNear(annots, arg[t].x, arg[t].y)
            IN  /\ SameButContents(annots, annots', IF M = {} THEN 0 ELSE SetMin(M))
                /\ loc'[t].result \in {"OK", "UNKNOWN"}
                /\ M = {} => /\ annots' = annots
                             /\ loc'[t].result = "UNKNOWN"
                /\ (M # {} /\ annots' # annots) =>
                     annots'[SetMin(M)].contents = arg[t].content
                /\ (M # {} /\ loc'[t].result = "OK") =>
                     annots'[SetMin(M)].contents = arg[t].content
                /\ (M # {} /\ ~faults'[t].thrown) => loc'[t].result = "OK"
                /\ (faults'[t].thrown /\ ~faults[t].thrown) => loc'[t].result = "UNKNOWN"]_vars

\* on the page with two notes in range the call returned Ok: the first note
\* has the new content, the second its own
C18_Witness ==
  \E t \in Threads :
    /\ pc[t] = "ret"
    /\ op[t] = "pdf_page_update_note_content"
    /\ ret[t].status = "OK"
    /\ annots = <<AnnotHighlight, [AnnotTextNear EXCEPT !.contents = "c"], AnnotText>>


\* ------------------------------------------------------------ C19
\* thread t makes the scan of the delete that follows its export
DeletesAfterExport(t) ==
  /\ pc[t] = "body"
  /\ op[t] = "pdf_page_delete_annotation"
  /\ pc'[t] = "ret"

\* the page as it was before the export of one highlight that met no failure:
\* everything but the annotation the export appended
BeforeExport(as) == SubSeq(as, 1, Len(as) - 1)

NormalizedRects(rects) ==
  \A i \in 1..Len(rects) : rects[i].x1 <= rects[i].x2 /\ rects[i].y1 <= rects[i].y2

\* the annotations of `as` that pdf_page_get_annotations reports
Reported(as) == SelectSeq(as, LAMBDA a : a.type \in Markup /\ Len(a.quads) >= 1)

====
